---- MODULE Spec2Model ----
(***************************************************************************)
(* Verification model of the PubMed relay backend:                         *)
(*   src/src/api.py            the /qa, /search and /save handlers          *)
(*   src/src/db.py             the articles table and the upsert            *)
(*   src/src/pubmed_client.py  the E-utilities client                       *)
(* Text is modelled as a sequence of one-character strings, so that the    *)
(* string operations of the handlers (strip, lower, startswith, substring  *)
(* search, regular-expression search and substitution, int parsing and     *)
(* formatting) are computed character by character as Python computes them.*)
(***************************************************************************)
EXTENDS Integers, Sequences, FiniteSets, TLC

\* ------------------------------------------------------------------ text

UpperSeq == <<"A","B","C","D","E","F","G","H","I","J","K","L","M",
              "N","O","P","Q","R","S","T","U","V","W","X","Y","Z">>
LowerSeq == <<"a","b","c","d","e","f","g","h","i","j","k","l","m",
              "n","o","p","q","r","s","t","u","v","w","x","y","z">>
DigitSeq == <<"0","1","2","3","4","5","6","7","8","9">>

\* str.isspace / the regular-expression class \s
IsSpace(c) == c \in {" ", "\n", "\t", "\r"}

\* the regular-expression class \d
IsDigit(c) == \E i \in DOMAIN DigitSeq : DigitSeq[i] = c

\* the regular-expression class \w
IsWordChar(c) ==
    \/ \E i \in DOMAIN UpperSeq : UpperSeq[i] = c
    \/ \E i \in DOMAIN LowerSeq : LowerSeq[i] = c
    \/ IsDigit(c)
    \/ c = "_"

UpperToLower == [c \in {UpperSeq[i] : i \in DOMAIN UpperSeq} |->
                    LowerSeq[CHOOSE i \in DOMAIN UpperSeq : UpperSeq[i] = c]]

LowerChar(c) == IF c \in DOMAIN UpperToLower THEN UpperToLower[c] ELSE c

\* str.lower (SubSeq makes the result a tuple)
Lower(s) == SubSeq([i \in 1..Len(s) |-> LowerChar(s[i])], 1, Len(s))

RECURSIVE LStrip(_)
LStrip(s) == IF s = <<>> \/ ~IsSpace(s[1]) THEN s ELSE LStrip(Tail(s))

RECURSIVE RStrip(_)
\* str.rstrip
RStrip(s) ==
    IF s = <<>> \/ ~IsSpace(s[Len(s)]) THEN s ELSE RStrip(SubSeq(s, 1, Len(s) - 1))

\* str.strip
Strip(s) == RStrip(LStrip(s))

\* str.startswith
StartsWith(s, p) == Len(s) >= Len(p) /\ SubSeq(s, 1, Len(p)) = p

OccursAt(s, p, i) == i >= 1 /\ i + Len(p) - 1 <= Len(s) /\ SubSeq(s, i, i + Len(p) - 1) = p

\* the substring test "p in s"
Contains(s, p) == \E i \in 1..(Len(s) - Len(p) + 1) : OccursAt(s, p, i)

RECURSIVE Find(_, _, _)
\* index of the first occurrence of p in s at or after position from; 0 when none
Find(s, p, from) ==
    IF from + Len(p) - 1 > Len(s) THEN 0
    ELSE IF OccursAt(s, p, from) THEN from
    ELSE Find(s, p, from + 1)

RECURSIVE NatToStr(_)
NatToStr(n) ==
    IF n < 10 THEN <<DigitSeq[n + 1]>>
    ELSE NatToStr(n \div 10) \o <<DigitSeq[(n % 10) + 1]>>

\* the f-string rendering of an int
IntToStr(n) == IF n < 0 THEN <<"-">> \o NatToStr(0 - n) ELSE NatToStr(n)

DigitVal(c) == (CHOOSE i \in DOMAIN DigitSeq : DigitSeq[i] = c) - 1

RECURSIVE StrToInt(_)
\* int() of a string of decimal digits
StrToInt(ds) ==
    IF ds = <<>> THEN 0
    ELSE 10 * StrToInt(SubSeq(ds, 1, Len(ds) - 1)) + DigitVal(ds[Len(ds)])

Min(a, b) == IF a <= b THEN a ELSE b

\* ------------------------------------------------- api.py: SQL extraction

\* The backquote character is written "BQ": the TLA+ lexer accepts no
\* backquote inside a string.  It is a single character of the text, neither
\* white space nor a word character.
FenceSql == <<"BQ","BQ","BQ","s","q","l">>
Fence == <<"BQ","BQ","BQ">>

\* re.search(r"<fence>sql\s*(.*?)<fence>", text, IGNORECASE | DOTALL): the index of the
\* opening fence and of the closing one, <<0, 0>> when there is no match.  The
\* lazy group ends at the first closing fence after the opening one; white space
\* holds no backtick, so \s* does not move it.
SearchFence(text, open, probe) ==
    LET i == Find(probe, open, 1)
        j == IF i = 0 THEN 0 ELSE Find(text, Fence, i + Len(open))
    IN  IF j = 0 THEN <<0, 0>> ELSE <<i, j>>

FenceGroup(text, open, m) == Strip(SubSeq(text, m[1] + Len(open), m[2] - 1))

\* _extract_sql_from_text
ExtractSqlFromText(text) ==
    LET m1 == SearchFence(text, FenceSql, Lower(text))
        m2 == SearchFence(text, Fence, text)
    IN  IF m1[2] # 0 THEN FenceGroup(text, FenceSql, m1)
        ELSE IF m2[2] # 0 THEN FenceGroup(text, Fence, m2)
        ELSE Strip(text)

\* ----------------------------------------------------- api.py: the filter

KwSelect == <<"s","e","l","e","c","t">>
Semicolon == <<";">>

\* the tuple banned of _is_sql_safe
Banned ==
    { <<"i","n","s","e","r","t">>, <<"u","p","d","a","t","e">>,
      <<"d","e","l","e","t","e">>, <<"d","r","o","p">>, <<"a","l","t","e","r">>,
      <<"t","r","u","n","c","a","t","e">>, <<"c","r","e","a","t","e">>,
      <<"g","r","a","n","t">>, <<"r","e","v","o","k","e">> }

\* the filter without lower(): keywords are matched in lower case only
IsSqlSafeCaseSensitive(sql) ==
    LET s == Strip(sql)
    IN  IF ~StartsWith(s, KwSelect) THEN FALSE
        ELSE IF Contains(s, Semicolon) THEN FALSE
        ELSE ~(\E tok \in Banned : Contains(s, tok))

\* _is_sql_safe
IsSqlSafe(sql) ==
    LET s == Lower(Strip(sql))
    IN  IF ~StartsWith(s, KwSelect) THEN FALSE
        ELSE IF Contains(s, Semicolon) THEN FALSE
        ELSE ~(\E tok \in Banned : Contains(s, tok))

\* ------------------------------------------- api.py: the row-limit rewrite

KwLimit == <<"l","i","m","i","t">>
LimitPrefix == <<"L","I","M","I","T"," ">>

RECURSIVE SpaceRun(_, _)
\* number of consecutive white-space characters of s from position i on
SpaceRun(s, i) == IF i > Len(s) \/ ~IsSpace(s[i]) THEN 0 ELSE 1 + SpaceRun(s, i + 1)

RECURSIVE DigitRun(_, _)
\* number of consecutive digits of s from position i on
DigitRun(s, i) == IF i > Len(s) \/ ~IsDigit(s[i]) THEN 0 ELSE 1 + DigitRun(s, i + 1)

\* A match of r"\blimit\s+(\d+)\b" (IGNORECASE) that starts at position i:
\* [first digit, last digit] of the group, <<0, 0>> when there is none.  Both
\* repetitions are greedy and cannot give back: a shorter \s+ leaves \d+ on a
\* white-space character, a shorter \d+ leaves \b between two digits.
LimitMatchAt(s, i) ==
    IF /\ (i = 1 \/ ~IsWordChar(s[i - 1]))
       /\ i + Len(KwLimit) - 1 <= Len(s)
       /\ Lower(SubSeq(s, i, i + Len(KwLimit) - 1)) = KwLimit
    THEN LET ws == SpaceRun(s, i + Len(KwLimit))
             d1 == i + Len(KwLimit) + ws
             ds == DigitRun(s, d1)
             dn == d1 + ds - 1
         IN  IF ws >= 1 /\ ds >= 1 /\ (dn = Len(s) \/ ~IsWordChar(s[dn + 1]))
             THEN <<d1, dn>>
             ELSE <<0, 0>>
    ELSE <<0, 0>>

\* re.search(r"\blimit\s+(\d+)\b", sql, flags=re.IGNORECASE) finds a match
HasLimit(sql) == \E i \in 1..Len(sql) : LimitMatchAt(sql, i)[1] # 0

RECURSIVE SubLimitToCap(_, _, _)
\* the substitution that writes the cap itself, without min()
SubLimitToCap(s, i, cap) ==
    IF i > Len(s) THEN <<>>
    ELSE LET m == LimitMatchAt(s, i)
         IN  IF m[1] # 0
             THEN LimitPrefix \o IntToStr(cap) \o SubLimitToCap(s, m[2] + 1, cap)
             ELSE <<s[i]>> \o SubLimitToCap(s, i + 1, cap)

RECURSIVE SubLimit(_, _, _)
\* re.sub of the same pattern from position i on: every match, left to right,
\* becomes f"LIMIT {min(int(mm.group(1)), cap)}"
SubLimit(s, i, cap) ==
    IF i > Len(s) THEN <<>>
    ELSE LET m == LimitMatchAt(s, i)
         IN  IF m[1] # 0
             THEN LimitPrefix \o IntToStr(Min(StrToInt(SubSeq(s, m[1], m[2])), cap))
                    \o SubLimit(s, m[2] + 1, cap)
             ELSE <<s[i]>> \o SubLimit(s, i + 1, cap)

\* lines 195-202 of qa: cap an existing LIMIT, or append one
EnforceLimit(sql, cap) ==
    IF HasLimit(sql)
    THEN SubLimit(sql, 1, cap)
    ELSE RStrip(sql) \o <<" ">> \o LimitPrefix \o IntToStr(cap)

\* ------------------------------------------------------ the relational store

\* The store is PostgreSQL behind SQLAlchemy: a connection sees a working copy
\* (wtables, wrows) of the persisted data (tables, rows); COMMIT makes the
\* working copy the persisted one, closing the connection discards it.
Connect(tbls, rws) == [tables |-> tbls, rows |-> rws, wtables |-> tbls, wrows |-> rws]

Commit(conn) == [conn EXCEPT !.tables = conn.wtables, !.rows = conn.wrows]

\* leaving "with engine.connect() as conn" without a commit rolls back
Close(conn) == [conn EXCEPT !.wtables = conn.tables, !.wrows = conn.rows]

KwCommit == <<"c","o","m","m","i","t">>
KwDropArticles == <<"d","r","o","p"," ","t","a","b","l","e"," ","a","r","t","i","c","l","e","s">>
KwInto == <<" ","i","n","t","o"," ","t","2"," ">>

\* what one statement does to the connection's working copy
ExecStatement(stmt, conn) ==
    LET s == Lower(Strip(stmt))
    IN  IF StartsWith(s, KwCommit) THEN Commit(conn)
        ELSE IF StartsWith(s, KwDropArticles)
        THEN [conn EXCEPT !.wtables = conn.wtables \ {"articles"}, !.wrows = <<>>]
        ELSE IF StartsWith(s, KwSelect) /\ Contains(s, KwInto)
        THEN [conn EXCEPT !.wtables = conn.wtables \cup {"t2"}]
        ELSE conn

RECURSIVE ExecScript(_, _)
\* conn.execute(text(sql)): the statements of sql, separated by ";", in order
ExecScript(sql, conn) ==
    LET i == Find(sql, Semicolon, 1)
    IN  IF i = 0 THEN ExecStatement(sql, conn)
        ELSE ExecScript(SubSeq(sql, i + 1, Len(sql)),
                        ExecStatement(SubSeq(sql, 1, i - 1), conn))

\* the store raises: it is unreachable, or the articles table does not exist
ExecFails(conn, dbFail) == dbFail \/ "articles" \notin conn.wtables

\* ------------------------------------------------------------- db.py

\* Python's None, for the Optional[str] fields
None == "None"

\* Article.pmid is String(32)
PmidMaxLen == 32

\* PubMedRecord(...) of save, lines 252-263 of api.py: authors=r.authors or []
ToPubMedRecord(r) ==
    [ pmid |-> r.pmid, title |-> r.title,
      authors |-> IF r.authors = <<>> THEN <<>> ELSE r.authors,
      journal |-> r.journal, pubdate |-> r.pubdate, doi |-> r.doi,
      abstract |-> r.abstract ]

\* Article(...) of upsert_articles, lines 106-114
NewArticle(rec) ==
    [ pmid |-> rec.pmid, title |-> rec.title, authors |-> rec.authors,
      journal |-> rec.journal, pubdate |-> rec.pubdate, doi |-> rec.doi,
      abstract |-> rec.abstract ]

\* an update that keeps the stored value where the incoming one is absent
UpdateArticleMerge(obj, rec) ==
    [ obj EXCEPT !.title = IF rec.title = None THEN obj.title ELSE rec.title,
                 !.authors = IF rec.authors = <<>> THEN obj.authors ELSE rec.authors,
                 !.journal = IF rec.journal = None THEN obj.journal ELSE rec.journal,
                 !.pubdate = IF rec.pubdate = None THEN obj.pubdate ELSE rec.pubdate,
                 !.doi = IF rec.doi = None THEN obj.doi ELSE rec.doi,
                 !.abstract = IF rec.abstract = None THEN obj.abstract ELSE rec.abstract ]

\* the assignments of upsert_articles, lines 117-122
UpdateArticle(obj, rec) ==
    [ obj EXCEPT !.title = rec.title, !.authors = rec.authors,
                 !.journal = rec.journal, !.pubdate = rec.pubdate,
                 !.doi = rec.doi, !.abstract = rec.abstract ]

\* A session: the rows its transaction sees, the objects added and not yet
\* flushed, the count of upsert_articles, and the error that ended it ("" = none).
NewSession(rws) == [rows |-> rws, pending |-> <<>>, count |-> 0, error |-> ""]

RowsOf(rws, pmid) == { i \in DOMAIN rws : rws[i].pmid = pmid }

RECURSIVE Flush(_)
\* The session sends its pending INSERTs, in order.  The store refuses a pmid
\* longer than the column and a second row with the same pmid (uq_articles_pmid).
Flush(sess) ==
    IF sess.error # "" \/ sess.pending = <<>> THEN sess
    ELSE LET obj == Head(sess.pending)
         IN  IF Len(obj.pmid) > PmidMaxLen
             THEN [sess EXCEPT !.error = "DataError: value too long for type character varying(32)"]
             ELSE IF RowsOf(sess.rows, obj.pmid) # {}
             THEN [sess EXCEPT !.error = "IntegrityError: duplicate key value violates unique constraint uq_articles_pmid"]
             ELSE Flush([sess EXCEPT !.rows = Append(sess.rows, obj),
                                     !.pending = Tail(sess.pending)])

\* the loop turn without session.add(obj): a new Article is built and dropped
UpsertOneNoAdd(sess, rec) ==
    LET s1 == Flush(sess)
        found == RowsOf(s1.rows, rec.pmid)
    IN  IF s1.error # "" THEN s1
        ELSE IF found = {} THEN [s1 EXCEPT !.count = s1.count + 1]
        ELSE LET i == CHOOSE j \in found : TRUE
             IN  [s1 EXCEPT !.rows[i] = UpdateArticle(s1.rows[i], rec),
                            !.count = s1.count + 1]

\* one turn of the loop of upsert_articles: the query flushes first (autoflush)
UpsertOne(sess, rec) ==
    LET s1 == Flush(sess)
        found == RowsOf(s1.rows, rec.pmid)
    IN  IF s1.error # "" THEN s1
        ELSE IF Cardinality(found) > 1
        THEN [s1 EXCEPT !.error = "MultipleResultsFound"]
        ELSE IF found = {}
        THEN [s1 EXCEPT !.pending = Append(s1.pending, NewArticle(rec)),
                        !.count = s1.count + 1]
        ELSE LET i == CHOOSE j \in found : TRUE
             IN  [s1 EXCEPT !.rows[i] = UpdateArticle(s1.rows[i], rec),
                            !.count = s1.count + 1]

RECURSIVE UpsertArticles(_, _)
\* upsert_articles: an exception ends the loop
UpsertArticles(sess, recs) ==
    IF recs = <<>> \/ sess.error # "" THEN sess
    ELSE UpsertArticles(UpsertOne(sess, Head(recs)), Tail(recs))

\* a session whose flushed writes stay when it is closed on an exception
KeepFlushed(sess, rows0) == sess.rows

\* the session is closed on an exception: nothing it wrote is kept
Rollback(sess, rows0) == rows0

SaveResult(n, err, tbls, rws, sess) ==
    [count |-> n, error |-> err, tables |-> tbls, rows |-> rws, wrows |-> sess.rows]

\* save_records: create_all (its own committed DDL), then one session
SaveRecords(recs, hasDb, dbUp, commitOk, tbls, rws) ==
    IF ~hasDb
    THEN SaveResult(0, "RuntimeError: DATABASE_URL is not set", tbls, rws, NewSession(rws))
    ELSE IF ~dbUp
    THEN SaveResult(0, "OperationalError: connection failed", tbls, rws, NewSession(rws))
    ELSE LET tbls1 == tbls \cup {"articles"}
             s1 == UpsertArticles(NewSession(rws), recs)
             s2 == Flush(s1)
         IN  IF s2.error # ""
             THEN SaveResult(0, s2.error, tbls1, Rollback(s2, rws), s2)
             ELSE IF ~commitOk
             THEN SaveResult(0, "OperationalError: commit failed", tbls1, Rollback(s2, rws), s2)
             ELSE SaveResult(s2.count, "", tbls1, s2.rows, s2)

\* ---------------------------------------------------- pubmed_client.py

\* SLEEP_WITH_KEY and SLEEP_NO_KEY, in milliseconds
SleepWithKeyMs == 110
SleepNoKeyMs == 350

\* What the client does to the outside, in order: the GET requests it sends and
\* the sleeps it takes.
Get(endpoint, ids, key) == [ev |-> "GET", endpoint |-> endpoint, ids |-> ids, key |-> key, ms |-> 0]

\* _rate_limit_sleep
RateLimitSleep(key) ==
    [ev |-> "sleep", endpoint |-> "", ids |-> <<>>, key |-> key,
     ms |-> IF key THEN SleepWithKeyMs ELSE SleepNoKeyMs]

\* the outcome of a client call: raised or returned, the value, the log so far
Raised(log) == [ok |-> FALSE, value |-> <<>>, log |-> log]
Returned(v, log) == [ok |-> TRUE, value |-> v, log |-> log]

\* esearch: r.raise_for_status() comes before the sleep
Esearch(r, key, log) ==
    LET log1 == Append(log, Get("esearch", <<>>, key))
    IN  IF r.status # 200 THEN Raised(log1)
        ELSE Returned(IF r.hasResult THEN r.idlist ELSE <<>>,
                      Append(log1, RateLimitSleep(key)))

PubMedRecord(pmid, title, authors, journal, pubdate, doi, abstract) ==
    [ pmid |-> pmid, title |-> title, authors |-> authors, journal |-> journal,
      pubdate |-> pubdate, doi |-> doi, abstract |-> abstract ]

\* a value Python takes for false in "x or y" and "if x"
Falsy(v) == v = None \/ v = ""

\* [a.get("name") for a in item.get("authors", []) if a.get("name")]
AuthorNames(as) ==
    LET keep == { i \in DOMAIN as : ~Falsy(as[i].name) }
        RECURSIVE Pick(_)
        Pick(i) == IF i > Len(as) THEN <<>>
                   ELSE (IF i \in keep THEN <<as[i].name>> ELSE <<>>) \o Pick(i + 1)
    IN  Pick(1)

RECURSIVE FirstDoi(_)
\* the loop over item.get("articleids", []) or []: the first id of type doi
FirstDoi(aids) ==
    IF aids = <<>> THEN None
    ELSE IF Head(aids).idtype = "doi" THEN Head(aids).value
    ELSE FirstDoi(Tail(aids))

\* the body of the loop of esummary, lines 158-188
SummaryRecord(uid, item) ==
    PubMedRecord(uid, item.title, AuthorNames(item.authors),
                 IF Falsy(item.fulljournalname) THEN item.source ELSE item.fulljournalname,
                 item.pubdate, FirstDoi(item.articleids), None)

\* esummary: no request for an empty list; one record per uid of the answer
Esummary(pmids, r, key, log) ==
    IF pmids = <<>> THEN Returned(<<>>, log)
    ELSE LET log1 == Append(log, Get("esummary", pmids, key))
         IN  IF r.status # 200 THEN Raised(log1)
             ELSE Returned([i \in DOMAIN r.uids |-> SummaryRecord(r.uids[i], r.item)],
                           Append(log1, RateLimitSleep(key)))

\* {r.pmid: r for r in ...}: the last record of a pmid is the one kept
MetaOf(recs) ==
    [ p \in { recs[i].pmid : i \in DOMAIN recs } |->
        recs[CHOOSE i \in DOMAIN recs :
               recs[i].pmid = p /\ \A j \in DOMAIN recs : recs[j].pmid = p => j <= i] ]

RECURSIVE JoinLines(_)
\* "\n".join(...)
JoinLines(ts) ==
    IF Len(ts) = 1 THEN ts[1] ELSE ts[1] \o "\n" \o JoinLines(Tail(ts))

\* lines 238-246: the AbstractText fragments of a document, labels kept
AbstractOf(frags) ==
    IF frags = <<>> THEN None
    ELSE JoinLines([i \in DOMAIN frags |->
                      IF Falsy(frags[i].label) THEN frags[i].text
                      ELSE frags[i].label \o ": " \o frags[i].text])

\* a loop that passes over the documents the summary lookup does not know
MergeStepMatchedOnly(st, d) ==
    IF Falsy(d.pmid) \/ d.pmid \notin DOMAIN st.meta THEN st
    ELSE [st EXCEPT !.records =
            Append(@, PubMedRecord(d.pmid, st.meta[d.pmid].title, st.meta[d.pmid].authors,
                                   st.meta[d.pmid].journal, st.meta[d.pmid].pubdate,
                                   st.meta[d.pmid].doi, AbstractOf(d.frags)))]

\* a loop that takes the entry it uses out of the summary lookup
MergeStepPop(st, d) ==
    IF Falsy(d.pmid) THEN st
    ELSE IF d.pmid \in DOMAIN st.meta
    THEN [meta |-> [p \in DOMAIN st.meta \ {d.pmid} |-> st.meta[p]],
          records |->
            Append(st.records,
                   PubMedRecord(d.pmid, st.meta[d.pmid].title, st.meta[d.pmid].authors,
                                st.meta[d.pmid].journal, st.meta[d.pmid].pubdate,
                                st.meta[d.pmid].doi, AbstractOf(d.frags)))]
    ELSE [st EXCEPT !.records =
            Append(@, PubMedRecord(d.pmid, None, <<>>, None, None, None,
                                   AbstractOf(d.frags)))]

\* One turn of the loop of fetch_with_abstracts, lines 230-273, on the state it
\* works with: the summary lookup it reads and the records it has appended.
MergeStep(st, d) ==
    IF Falsy(d.pmid) THEN st
    ELSE IF d.pmid \in DOMAIN st.meta
    THEN [st EXCEPT !.records =
            Append(@, PubMedRecord(d.pmid, st.meta[d.pmid].title, st.meta[d.pmid].authors,
                                   st.meta[d.pmid].journal, st.meta[d.pmid].pubdate,
                                   st.meta[d.pmid].doi, AbstractOf(d.frags)))]
    ELSE [st EXCEPT !.records =
            Append(@, PubMedRecord(d.pmid, None, <<>>, None, None, None,
                                   AbstractOf(d.frags)))]

RECURSIVE MergeLoop(_, _)
\* the loop over the parsed documents, in document order
MergeLoop(docs, st) ==
    IF docs = <<>> THEN st ELSE MergeLoop(Tail(docs), MergeStep(st, Head(docs)))

\* lines 228-275: the records of the documents, from an empty list
MergeDocs(docs, meta) == MergeLoop(docs, [meta |-> meta, records |-> <<>>]).records

\* a normaliser that falls back on the summary records when efetch fails
FetchWithAbstractsKeepSummary(pmids, rs, rf, key, log) ==
    IF pmids = <<>> THEN Returned(<<>>, log)
    ELSE LET sum == Esummary(pmids, rs, key, log)
         IN  IF ~sum.ok THEN sum
             ELSE LET log1 == Append(sum.log, Get("efetch", pmids, key))
                  IN  IF rf.status # 200 THEN Returned(sum.value, log1)
                      ELSE Returned(MergeDocs(rf.docs, MetaOf(sum.value)),
                                    Append(log1, RateLimitSleep(key)))

\* fetch_with_abstracts: esummary first, then efetch
FetchWithAbstracts(pmids, rs, rf, key, log) ==
    IF pmids = <<>> THEN Returned(<<>>, log)
    ELSE LET sum == Esummary(pmids, rs, key, log)
         IN  IF ~sum.ok THEN sum
             ELSE LET log1 == Append(sum.log, Get("efetch", pmids, key))
                  IN  IF rf.status # 200 THEN Raised(log1)
                      ELSE Returned(MergeDocs(rf.docs, MetaOf(sum.value)),
                                    Append(log1, RateLimitSleep(key)))

\* _serialize_records
SerializeRecords(recs) ==
    [ i \in DOMAIN recs |->
        [ pmid |-> recs[i].pmid, title |-> recs[i].title,
          authors |-> recs[i].authors, journal |-> recs[i].journal,
          pubdate |-> recs[i].pubdate, doi |-> recs[i].doi,
          abstract |-> recs[i].abstract ] ]

\* lines 240-243 of search: the records of a non-empty id list
SearchFetch(pmids, abstracts, rs, rf, key, log) ==
    IF abstracts THEN FetchWithAbstracts(pmids, rs, rf, key, log)
    ELSE Esummary(pmids, rs, key, log)

\* a handler that refuses an empty result instead of returning it
SearchRecordsOrRaise(pmids, abstracts, rs, rf, key, log) ==
    IF pmids = <<>> THEN Raised(log)
    ELSE SearchFetch(pmids, abstracts, rs, rf, key, log)

\* lines 237-243 of search: nothing is fetched for an empty id list
SearchRecords(pmids, abstracts, rs, rf, key, log) ==
    IF pmids = <<>> THEN Returned(<<>>, log)
    ELSE SearchFetch(pmids, abstracts, rs, rf, key, log)

SearchResult(code, err, recs, log, pmids) ==
    [resp |-> [status |-> code, error |-> err, records |-> recs], log |-> log, pmids |-> pmids]

\* search, lines 224-246 of api.py.  An exception of the client is not caught:
\* the framework answers 500.
SearchRun(query, abstracts, re, rs, rf, key) ==
    IF query = "" THEN SearchResult(400, "query is required", <<>>, <<>>, <<>>)
    ELSE LET ids == Esearch(re, key, <<>>)
         IN  IF ~ids.ok
             THEN SearchResult(500, "Internal Server Error", <<>>, ids.log, <<>>)
             ELSE LET out == SearchRecords(ids.value, abstracts, rs, rf, key, ids.log)
                  IN  IF ~out.ok
                      THEN SearchResult(500, "Internal Server Error", <<>>, out.log, ids.value)
                      ELSE SearchResult(200, "", SerializeRecords(out.value), out.log, ids.value)

\* ------------------------------------------------------------ api.py: qa

MsgNoKey == <<"G","E","M","I","N","I","_","A","P","I","_","K","E","Y"," ","(","o","r"," ","G","O","O","G","L","E","_","A","P","I","_","K","E","Y",")"," ","i","s"," ","r","e","q","u","i","r","e","d">>
MsgLlmError == <<"L","L","M"," ","e","r","r","o","r",":"," ">>
MsgBlocked == <<"G","e","m","i","n","i"," ","b","l","o","c","k","e","d"," ","t","h","e"," ","p","r","o","m","p","t",":"," ","S","A","F","E","T","Y">>
MsgNoText == <<"G","e","m","i","n","i"," ","r","e","t","u","r","n","e","d"," ","n","o"," ","t","e","x","t"," ","c","o","n","t","e","n","t">>
MsgRejected == <<"G","e","n","e","r","a","t","e","d"," ","S","Q","L"," ","r","e","j","e","c","t","e","d"," ","b","y"," ","s","a","f","e","t","y"," ","c","h","e","c","k","s",":"," ">>
MsgNoDbUrl == <<"D","A","T","A","B","A","S","E","_","U","R","L"," ","i","s"," ","r","e","q","u","i","r","e","d">>
MsgSqlError == <<"S","Q","L"," ","e","x","e","c","u","t","i","o","n"," ","e","r","r","o","r",":"," ">>
MsgDbDown == <<"c","o","n","n","e","c","t","i","o","n"," ","f","a","i","l","e","d">>
MsgNoTable == <<"r","e","l","a","t","i","o","n"," ","\"","a","r","t","i","c","l","e","s","\""," ","d","o","e","s"," ","n","o","t"," ","e","x","i","s","t">>

NoResp == [status |-> 0, detail |-> <<>>, error |-> "", sql |-> <<>>, saved |-> 0, records |-> <<>>]
HttpError(code, msg) == [NoResp EXCEPT !.status = code, !.detail = msg]

\* what a run of qa did, step by step (empty where the run did not get there)
NoQaTrace ==
    [ tables0 |-> {}, rows0 |-> <<>>, llmCalled |-> FALSE, text |-> <<>>, parts |-> <<>>, filtered |-> FALSE,
      sql |-> <<>>, safe |-> FALSE, limited |-> FALSE, final |-> <<>>,
      executed |-> <<>>, wtables |-> {}, wrows |-> <<>> ]

QaResult(r, t, conn) == [resp |-> r, trace |-> t, tables |-> conn.tables, rows |-> conn.rows]

\* the trace of a run that starts on this store
QaTrace(conn) == [NoQaTrace EXCEPT !.tables0 = conn.tables, !.rows0 = conn.rows]

\* the same run inside "with engine.begin()", which commits on exit
QaExecuteInTransaction(sql, conn) == Close(Commit(ExecScript(sql, conn)))

\* lines 207-211 of qa: run the statement on a connection that is never committed
QaExecute(sql, conn) == Close(ExecScript(sql, conn))

\* lines 194-215 of qa: the statement passed the filter
QaProceed(sql, top_k, hasDb, dbFail, t, conn) ==
    LET final == EnforceLimit(sql, top_k)
        t1 == [t EXCEPT !.limited = TRUE, !.final = final]
    IN  IF ~hasDb THEN QaResult(HttpError(400, MsgNoDbUrl), t1, conn)
        ELSE IF ExecFails(conn, dbFail)
        THEN QaResult(HttpError(500, MsgSqlError \o (IF dbFail THEN MsgDbDown ELSE MsgNoTable)),
                      [t1 EXCEPT !.executed = IF dbFail THEN <<>> ELSE <<final>>,
                                 !.wtables = conn.wtables, !.wrows = conn.wrows],
                      Close(conn))
        ELSE LET after == ExecScript(final, conn)
             IN  QaResult([NoResp EXCEPT !.status = 200, !.sql = final],
                          [t1 EXCEPT !.executed = <<final>>,
                                     !.wtables = after.wtables, !.wrows = after.wrows],
                          QaExecute(final, conn))

\* a rejection that is only reported, after which the handler goes on
QaRejectAndGoOn(sql, top_k, hasDb, dbFail, t, conn) ==
    QaProceed(sql, top_k, hasDb, dbFail, t, conn)

\* line 193 of qa: the statement failed the filter
QaReject(sql, top_k, hasDb, dbFail, t, conn) ==
    QaResult(HttpError(400, MsgRejected \o sql), t, conn)

\* lines 178-215 of qa
QaRun(top_k, hasKey, llm, text, hasDb, dbFail, conn) ==
    IF ~hasKey THEN QaResult(HttpError(400, MsgNoKey), QaTrace(conn), conn)
    ELSE IF llm = "blocked"
    THEN QaResult(HttpError(500, MsgLlmError \o MsgBlocked),
                  [QaTrace(conn) EXCEPT !.llmCalled = TRUE], conn)
    ELSE IF llm = "empty"
    THEN QaResult(HttpError(500, MsgLlmError \o MsgNoText),
                  [QaTrace(conn) EXCEPT !.llmCalled = TRUE], conn)
    ELSE LET sql == ExtractSqlFromText(text)
             t == [QaTrace(conn) EXCEPT !.llmCalled = TRUE, !.text = text, !.filtered = TRUE,
                                    !.sql = sql, !.safe = IsSqlSafe(sql)]
         IN  IF ~IsSqlSafe(sql)
             THEN QaReject(sql, top_k, hasDb, dbFail, t, conn)
             ELSE QaProceed(sql, top_k, hasDb, dbFail, t, conn)

\* ------------------------------------------- what the generative model says

Txt(c) == [lim |-> FALSE, txt |-> c, kw |-> <<>>, n |-> 0]
Lim(kw, digits, k) == [lim |-> TRUE, txt |-> kw \o digits, kw |-> kw, n |-> k]

\* A statement is a sequence of segments: plain text, or a limit clause (the
\* keyword with its white space, the digits, the bound the digits denote).  The
\* handler sees only the characters.
Heads ==
    { <<Txt(<<"S","E","L","E","C","T"," ","t","i","t","l","e"," ","F","R","O","M"," ","a","r","t","i","c","l","e","s">>)>>,
      <<Txt(<<"S","e","l","e","c","t"," ","t","i","t","l","e",","," ","u","p","d","a","t","e","d"," ","F","R","O","M"," ","a","r","t","i","c","l","e","s">>)>>,
      <<Txt(<<"s","e","l","e","c","t"," ","t","i","t","l","e"," ","I","N","T","O"," ","t","2"," ","F","R","O","M"," ","a","r","t","i","c","l","e","s">>)>>,
      <<Txt(<<"D","R","O","P"," ","T","A","B","L","E"," ","a","r","t","i","c","l","e","s">>)>>,
      <<Txt(<<"S","E","L","E","C","T"," ","t","i","t","l","e"," ","F","R","O","M"," ","(","S","E","L","E","C","T"," ","*"," ","F","R","O","M"," ","a","r","t","i","c","l","e","s"," ">>),
        Lim(<<"l","i","m","i","t"," "," ">>, <<"0","0","7">>, 7),
        Txt(<<")"," ","s">>)>>,
      <<Txt(<<"V","A","L","U","E","S"," ","(","1",")">>)>> }

Tails ==
    { <<Txt(<<" ">>), Lim(<<"L","I","M","I","T"," ">>, <<"5","0","0">>, 500)>>,
      <<Txt(<<"\n">>), Lim(<<"l","i","m","i","t"," ">>, <<"5">>, 5)>>,
      <<Txt(<<";"," ","D","R","O","P"," ","T","A","B","L","E"," ","a","r","t","i","c","l","e","s">>)>>,
      <<Txt(<<";"," ","C","O","M","M","I","T">>)>> }

MaxTails == 1

TailSeqs == UNION { [1..k -> Tails] : k \in 0..MaxTails }

RECURSIVE Concat(_)
Concat(ss) == IF ss = <<>> THEN <<>> ELSE Head(ss) \o Concat(Tail(ss))

Bodies == { h \o Concat(ts) : h \in Heads, ts \in TailSeqs }

Flatten(segs) == Concat([i \in 1..Len(segs) |-> segs[i].txt])

Wraps == {"plain", "sqlfence", "fence"}

WrapText(wrap, body) ==
    IF wrap = "sqlfence"
    THEN <<"BQ","BQ","BQ","s","q","l","\n">> \o body \o <<"\n","BQ","BQ","BQ">>
    ELSE IF wrap = "fence"
    THEN <<"H","e","r","e",":","\n","BQ","BQ","BQ","\n">> \o body \o <<"\n","BQ","BQ","BQ">>
    ELSE body

LlmOutcomes == {"blocked", "empty", "text"}

\* QARequest.top_k is an int with no range
TopKs == {-1, 50, 100}

\* ------------------------------------------------------ what a client saves

LongPmid == "123456789012345678901234567890123"
Pmids == {"1", "2", LongPmid}

Full ==
    [ title |-> "T", authors |-> <<"Ann", "Bob">>, journal |-> "J",
      pubdate |-> "2020 Jan", doi |-> "10.1/x", abstract |-> "text" ]
Bare ==
    [ title |-> None, authors |-> <<>>, journal |-> None,
      pubdate |-> None, doi |-> None, abstract |-> None ]
FieldSets == {Full, Bare}

\* RecordModel
RecordModel(p, f) ==
    [ pmid |-> p, title |-> f.title, authors |-> f.authors, journal |-> f.journal,
      pubdate |-> f.pubdate, doi |-> f.doi, abstract |-> f.abstract ]

FieldsOf(r) ==
    [ title |-> r.title, authors |-> r.authors, journal |-> r.journal,
      pubdate |-> r.pubdate, doi |-> r.doi, abstract |-> r.abstract ]

RecordModels == { RecordModel(p, f) : p \in Pmids, f \in FieldSets }

MaxRecs == 2

RecordLists == UNION { [1..k -> RecordModels] : k \in 0..MaxRecs }

\* ------------------------------------------- what the literature service says

MaxIds == 2
MaxUids == 2
MaxDocs == 2

Ids == {"1", "2"}
IdLists == UNION { [1..k -> Ids] : k \in 0..MaxIds }

\* the uids of a summary answer need not be the ids asked for
Uids == {"1", "2", ""}
UidLists == UNION { [1..k -> Uids] : k \in 0..MaxUids }

\* the entry the answer holds for its uids: a full one, one with the short
\* journal name and no doi, or none ({}: every get() gives its default)
ItemFull ==
    [ title |-> "T", authors |-> <<[name |-> "Ann"], [name |-> ""], [name |-> "Bob"]>>,
      fulljournalname |-> "Journal", source |-> "J", pubdate |-> "2020 Jan",
      articleids |-> <<[idtype |-> "pubmed", value |-> "1"],
                       [idtype |-> "doi", value |-> "10.1/x"],
                       [idtype |-> "doi", value |-> "10.2/y"]>> ]
ItemShort ==
    [ title |-> "T", authors |-> <<[name |-> None]>>,
      fulljournalname |-> "", source |-> "J", pubdate |-> None,
      articleids |-> <<[idtype |-> "pubmed", value |-> "1"]>> ]
ItemNone ==
    [ title |-> None, authors |-> <<>>, fulljournalname |-> None, source |-> None,
      pubdate |-> None, articleids |-> <<>> ]
Items == {ItemFull, ItemShort, ItemNone}

EsearchAnswers ==
    { [status |-> 500, hasResult |-> FALSE, idlist |-> <<>>],
      [status |-> 200, hasResult |-> FALSE, idlist |-> <<>>] }
    \cup { [status |-> 200, hasResult |-> TRUE, idlist |-> l] : l \in IdLists }

EsummaryAnswers ==
    { [status |-> 500, uids |-> <<>>, item |-> ItemNone] }
    \cup { [status |-> 200, uids |-> l, item |-> it] : l \in UidLists, it \in Items }

\* a parsed PubmedArticle: the text of its first PMID element (None when it has
\* none) and its AbstractText fragments
DocPmids == {"1", "2", None}
FragLists ==
    { <<>>,
      <<[label |-> "Background", text |-> "b"], [label |-> None, text |-> "m"]>> }
Docs == { [pmid |-> p, frags |-> f] : p \in DocPmids, f \in FragLists }
DocLists == UNION { [1..k -> Docs] : k \in 0..MaxDocs }

EfetchAnswers ==
    { [status |-> 500, docs |-> <<>>] }
    \cup { [status |-> 200, docs |-> l] : l \in DocLists }

\* ------------------------------------------------------------------ state

VARIABLES
    tables,     \* the tables of the store
    rows,       \* the rows of the articles table, in insertion order
    phase,      \* "idle", "pending" (a request is with its handler), "done"
    req,        \* the request
    resp,       \* the response
    trace,      \* what the handler did
    lastSaved,  \* history: pmid -> the fields last saved with success
    outbound    \* history: "GET" while the last request of the client to the
                \* literature service has had no delay after it, "none" otherwise

vars == <<tables, rows, phase, req, resp, trace, lastSaved, outbound>>

NoReq == [op |-> "none"]

Init ==
    /\ tables = {}
    /\ rows = <<>>
    /\ phase = "idle"
    /\ req = NoReq
    /\ resp = NoResp
    /\ trace = NoQaTrace
    /\ lastSaved = <<>>
    /\ outbound = "none"

QaRequest ==
    /\ phase = "idle"
    /\ \E k \in TopKs : req' = [op |-> "qa", top_k |-> k]
    /\ phase' = "pending"
    /\ UNCHANGED <<tables, rows, resp, trace, lastSaved, outbound>>

QaDone(out, body) ==
    /\ resp' = out.resp
    /\ trace' = [out.trace EXCEPT !.parts = body]
    /\ tables' = out.tables
    /\ rows' = out.rows
    /\ phase' = "done"
    /\ UNCHANGED <<req, lastSaved, outbound>>

\* The handler of POST /qa.  The environment decides whether the key and the
\* store location are configured, what the generative model answers and
\* whether the store can be reached.
Qa ==
    /\ phase = "pending"
    /\ req.op = "qa"
    /\ \/ QaDone(QaRun(req.top_k, FALSE, "text", <<>>, TRUE, FALSE, Connect(tables, rows)), <<>>)
       \/ \E llm \in LlmOutcomes \ {"text"} :
            QaDone(QaRun(req.top_k, TRUE, llm, <<>>, TRUE, FALSE, Connect(tables, rows)), <<>>)
       \/ \E body \in Bodies, wrap \in Wraps, hasDb \in BOOLEAN, dbFail \in BOOLEAN :
            QaDone(QaRun(req.top_k, TRUE, "text", WrapText(wrap, Flatten(body)),
                         hasDb, dbFail, Connect(tables, rows)), body)

SaveRequest ==
    /\ phase = "idle"
    /\ \E rs \in RecordLists : req' = [op |-> "save", records |-> rs]
    /\ phase' = "pending"
    /\ UNCHANGED <<tables, rows, resp, trace, lastSaved, outbound>>

\* the fields of the last record of recs that carries pmid p
LastOf(recs, p) ==
    FieldsOf(recs[CHOOSE i \in DOMAIN recs :
                    /\ recs[i].pmid = p
                    /\ \A j \in DOMAIN recs : recs[j].pmid = p => j <= i])

\* The handler of POST /save, lines 250-269 of api.py.
Save ==
    /\ phase = "pending"
    /\ req.op = "save"
    /\ \E hasDb \in BOOLEAN, dbUp \in BOOLEAN, commitOk \in BOOLEAN :
         LET recs == [i \in DOMAIN req.records |-> ToPubMedRecord(req.records[i])]
             out == SaveRecords(recs, hasDb, dbUp, commitOk, tables, rows)
             ids == { recs[i].pmid : i \in DOMAIN recs }
         IN  /\ resp' = IF out.error = ""
                        THEN [NoResp EXCEPT !.status = 200, !.saved = out.count]
                        ELSE [NoResp EXCEPT !.status = 500, !.error = out.error]
             /\ trace' = [tables0 |-> tables, rows0 |-> rows, wrows |-> out.wrows]
             /\ tables' = out.tables
             /\ rows' = out.rows
             /\ lastSaved' =
                    IF out.error # "" THEN lastSaved
                    ELSE [p \in DOMAIN lastSaved \cup ids |->
                            IF p \in ids THEN LastOf(recs, p) ELSE lastSaved[p]]
    /\ phase' = "done"
    /\ UNCHANGED <<req, outbound>>

SearchRequest ==
    /\ phase = "idle"
    /\ \E q \in {"", "llm"}, ab \in BOOLEAN :
         req' = [op |-> "search", query |-> q, include_abstracts |-> ab]
    /\ phase' = "pending"
    /\ UNCHANGED <<tables, rows, resp, trace, lastSaved, outbound>>

SearchDone(out, re, rs, rf, key) ==
    /\ resp' = [NoResp EXCEPT !.status = out.resp.status, !.error = out.resp.error,
                              !.records = out.resp.records]
    /\ trace' = [log |-> out.log, pmids |-> out.pmids, esearch |-> re,
                 esummary |-> rs, efetch |-> rf, key |-> key, before |-> outbound]
    /\ outbound' = IF out.log = <<>> THEN outbound
                   ELSE IF out.log[Len(out.log)].ev = "GET" THEN "GET" ELSE "none"
    /\ phase' = "done"
    /\ UNCHANGED <<tables, rows, req, lastSaved>>

\* the answer to a request that is never sent
NoAnswer ==
    [status |-> 500, hasResult |-> FALSE, idlist |-> <<>>, uids |-> <<>>,
     item |-> ItemNone, docs |-> <<>>]

\* The handler of POST /search.  The environment decides whether an NCBI key is
\* configured and what the literature service answers to each request.
Search ==
    /\ phase = "pending"
    /\ req.op = "search"
    /\ \/ /\ req.query = ""
          /\ SearchDone(SearchRun(req.query, req.include_abstracts, NoAnswer, NoAnswer,
                                  NoAnswer, FALSE), NoAnswer, NoAnswer, NoAnswer, FALSE)
       \/ /\ req.query # ""
          /\ \E key \in BOOLEAN, re \in EsearchAnswers :
               IF re.status # 200 \/ ~re.hasResult \/ re.idlist = <<>>
               THEN SearchDone(SearchRun(req.query, req.include_abstracts, re, NoAnswer,
                                         NoAnswer, key), re, NoAnswer, NoAnswer, key)
               ELSE \E rs \in EsummaryAnswers :
                      IF ~req.include_abstracts \/ rs.status # 200
                      THEN SearchDone(SearchRun(req.query, req.include_abstracts, re, rs,
                                                NoAnswer, key), re, rs, NoAnswer, key)
                      ELSE \E rf \in EfetchAnswers :
                             SearchDone(SearchRun(req.query, req.include_abstracts, re, rs,
                                                  rf, key), re, rs, rf, key)

\* the response goes back to the caller
Deliver ==
    /\ phase = "done"
    /\ phase' = "idle"
    /\ req' = NoReq
    /\ resp' = NoResp
    /\ trace' = NoQaTrace
    /\ UNCHANGED <<tables, rows, lastSaved, outbound>>

\* the store and the two handlers that use it
Next == QaRequest \/ Qa \/ SaveRequest \/ Save \/ Deliver

Spec == Init /\ [][Next]_vars

\* the search handler and the literature service
NextSearch == SearchRequest \/ Search \/ Deliver

SpecSearch == Init /\ [][NextSearch]_vars

\* ------------------------------------------------------------- properties

IsQaDone == phase = "done" /\ req.op = "qa"
IsSaveDone == phase = "done" /\ req.op = "save"
IsSearchDone == phase = "done" /\ req.op = "search"

\* the keywords the filter is said to refuse
RefusedKeywords ==
    { <<"I","N","S","E","R","T">>, <<"U","P","D","A","T","E">>,
      <<"D","E","L","E","T","E">>, <<"D","R","O","P">>, <<"A","L","T","E","R">>,
      <<"T","R","U","N","C","A","T","E">>, <<"C","R","E","A","T","E">>,
      <<"G","R","A","N","T">>, <<"R","E","V","O","K","E">> }

SameLetter(c, d) == LowerChar(c) = LowerChar(d)

\* word w stands in s at positions k .. k+Len(w)-1, whatever the letter case
StandsAt(s, w, k) == \A m \in 1..Len(w) : SameLetter(s[k + m - 1], w[m])

\* The filter as the specification words it: between its first and its last
\* character that is not white space, the statement starts with "select",
\* holds no ";" and none of the refused keywords, letter case ignored.
FilterContract(sql) ==
    LET ink == { i \in 1..Len(sql) : ~IsSpace(sql[i]) }
    IN  /\ ink # {}
        /\ LET a == CHOOSE i \in ink : \A j \in ink : i <= j
               b == CHOOSE i \in ink : \A j \in ink : j <= i
           IN  /\ a + 5 <= b
               /\ StandsAt(sql, <<"S","E","L","E","C","T">>, a)
               /\ \A k \in a..b : sql[k] # ";"
               /\ \A w \in RefusedKeywords :
                    \A k \in a..(b - Len(w) + 1) : ~StandsAt(sql, w, k)

StmtUpdatedColumn == <<"S","e","l","e","c","t"," ","t","i","t","l","e",","," ","u","p","d","a","t","e","d"," ","F","R","O","M"," ","a","r","t","i","c","l","e","s">>
StmtWithDrop == <<"S","E","L","E","C","T"," ","t","i","t","l","e"," ","F","R","O","M"," ","a","r","t","i","c","l","e","s",";"," ","D","R","O","P"," ","T","A","B","L","E"," ","a","r","t","i","c","l","e","s">>
StmtPlain == <<"S","E","L","E","C","T"," ","t","i","t","l","e"," ","F","R","O","M"," ","a","r","t","i","c","l","e","s">>
StmtLimit500 == <<"S","E","L","E","C","T"," ","t","i","t","l","e"," ","F","R","O","M"," ","a","r","t","i","c","l","e","s"," ","L","I","M","I","T"," ","5","0","0">>
StmtLimit100 == <<"S","E","L","E","C","T"," ","t","i","t","l","e"," ","F","R","O","M"," ","a","r","t","i","c","l","e","s"," ","L","I","M","I","T"," ","1","0","0">>
StmtLimit50 == <<"S","E","L","E","C","T"," ","t","i","t","l","e"," ","F","R","O","M"," ","a","r","t","i","c","l","e","s"," ","L","I","M","I","T"," ","5","0">>

\* C1: whenever qa runs the safety filter on a statement, the filter accepts it
\* if and only if the trimmed statement, letter case ignored, starts with
\* "select", holds no ";" and holds none of the refused keywords as a substring;
\* so a statement with a ";" and a statement naming a column "updated" are refused.
C1_FilterIsTheContract ==
    (IsQaDone /\ trace.filtered) =>
        /\ trace.safe = FilterContract(trace.sql)
        /\ (Contains(trace.sql, Semicolon) => ~trace.safe)
        /\ (trace.sql = StmtUpdatedColumn => ~trace.safe)
        /\ (trace.sql = StmtPlain => trace.safe)

C1_Witness == IsQaDone /\ trace.filtered /\ ~trace.safe /\ trace.sql = StmtUpdatedColumn

\* C2: when the statement extracted from the model's answer fails the filter,
\* qa ends with status 400 and a message that holds the statement, and nothing
\* is executed; whatever qa executes was derived from a statement the filter passes.
C2_RejectedIsNeverExecuted ==
    IsQaDone =>
        /\ (trace.filtered /\ ~FilterContract(trace.sql)) =>
              /\ resp.status = 400
              /\ Contains(resp.detail, trace.sql)
              /\ trace.executed = <<>>
        /\ trace.executed # <<>> => (trace.filtered /\ FilterContract(trace.sql))

C2_Witness ==
    /\ IsQaDone /\ trace.filtered /\ trace.sql = StmtWithDrop
    /\ resp.status = 400 /\ rows # <<>>

\* C3: qa leaves the persisted data as it found it: the tables of the store
\* and the rows of articles are the same after the operation as before it.
C3_QaIsReadOnly == IsQaDone => (tables = trace.tables0 /\ rows = trace.rows0)

C3_Witness ==
    /\ IsQaDone /\ resp.status = 200 /\ trace.executed # <<>>
    /\ trace.wtables # tables /\ rows # <<>>

\* the text qa should go on with: each limit clause written with keyword kw(seg)
\* and the bound min(bound, cap); " LIMIT cap" appended when there is none
RewrittenWith(segs, cap, kw(_)) ==
    IF \E i \in DOMAIN segs : segs[i].lim
    THEN Concat([i \in DOMAIN segs |->
                   IF segs[i].lim
                   THEN kw(segs[i]) \o IntToStr(Min(segs[i].n, cap))
                   ELSE segs[i].txt])
    ELSE Flatten(segs) \o <<" ","L","I","M","I","T"," ">> \o IntToStr(cap)

KeywordAsWritten(seg) == seg.kw
KeywordNormalised(seg) == <<"L","I","M","I","T"," ">>

StmtLowerLimit == <<"S","E","L","E","C","T"," ","t","i","t","l","e"," ","F","R","O","M"," ","a","r","t","i","c","l","e","s","\n","l","i","m","i","t"," ","5">>

\* C4 as claimed: only the numeric bound of a limit clause is rewritten, to
\* min(bound, top_k), or " LIMIT top_k" is appended when there is no limit
\* clause; no other character of the statement is altered.
C4_OnlyTheBoundChanges ==
    (IsQaDone /\ trace.limited) =>
        trace.final = RewrittenWith(trace.parts, req.top_k, KeywordAsWritten)

\* C4 as amended: every limit clause of the filtered statement (keyword, white
\* space and digits) is replaced by "LIMIT " and min(bound, top_k) in decimal, or
\* " LIMIT top_k" is appended when there is none; the text outside the limit
\* clauses is not altered.
C4_LimitIsCappedOrAppended ==
    (IsQaDone /\ trace.limited) =>
        /\ trace.sql = Flatten(trace.parts)
        /\ trace.final = RewrittenWith(trace.parts, req.top_k, KeywordNormalised)
        /\ (trace.sql = StmtLimit500 /\ req.top_k = 100) => trace.final = StmtLimit100
        /\ (trace.sql = StmtPlain /\ req.top_k = 50) => trace.final = StmtLimit50

C4_Witness ==
    /\ IsQaDone /\ trace.limited /\ req.top_k = 50
    /\ trace.sql = StmtLowerLimit
    /\ trace.final # trace.sql

\* C5: applying the row-limit rewrite, with the request's top_k, to its own
\* output gives that output again.
C5_RewriteIsIdempotent ==
    (IsQaDone /\ trace.limited) => EnforceLimit(trace.final, req.top_k) = trace.final

\* the same for the caps that are not negative
C5_IdempotentFromZero ==
    (IsQaDone /\ trace.limited /\ req.top_k >= 0) =>
        EnforceLimit(trace.final, req.top_k) = trace.final

\* C6: every stored row holds the fields of the last record saved with success
\* under its pmid, absent fields included.
C6_LastWriteWins ==
    \A i \in DOMAIN rows :
        /\ rows[i].pmid \in DOMAIN lastSaved
        /\ FieldsOf(rows[i]) = lastSaved[rows[i].pmid]

C6_Witness ==
    /\ IsSaveDone /\ resp.status = 200
    /\ \E i \in DOMAIN trace.rows0 : trace.rows0[i].pmid = "1" /\ trace.rows0[i].title = "T"
    /\ \E j \in DOMAIN rows : rows[j].pmid = "1" /\ rows[j].title = None

\* C7: a save that fails, at the commit or part-way through its records, leaves
\* the rows of the table as they were and answers with an error.
C7_FailedSaveKeepsNothing ==
    (IsSaveDone /\ resp.status # 200) =>
        /\ rows = trace.rows0
        /\ resp.status = 500
        /\ resp.error # ""

C7_Witness ==
    /\ IsSaveDone /\ resp.status = 500
    /\ trace.wrows # trace.rows0
    /\ rows = trace.rows0

\* C8: the table holds exactly one row for each pmid saved with success and no
\* row for any other; a save never removes or moves a row that was there.
C8_OneRowPerIdentifier ==
    /\ \A p \in Pmids :
          Cardinality(RowsOf(rows, p)) = IF p \in DOMAIN lastSaved THEN 1 ELSE 0
    /\ \A i \in DOMAIN rows : rows[i].pmid \in Pmids
    /\ IsSaveDone =>
          /\ Len(trace.rows0) <= Len(rows)
          /\ \A i \in DOMAIN trace.rows0 : rows[i].pmid = trace.rows0[i].pmid

C8_Witness ==
    /\ IsSaveDone /\ resp.status = 200
    /\ Len(req.records) = 2
    /\ req.records[1].pmid = "1" /\ req.records[2].pmid = "1"
    /\ trace.rows0 = <<>>
    /\ Cardinality(RowsOf(rows, "1")) = 1

GetsTo(log, endpoints) ==
    { i \in DOMAIN log : log[i].ev = "GET" /\ log[i].endpoint \in endpoints }

\* the identifier search answered with success and with no identifier
FoundNothing ==
    /\ req.query # ""
    /\ trace.esearch.status = 200
    /\ (~trace.esearch.hasResult \/ trace.esearch.idlist = <<>>)

\* C9: when the identifier search yields no identifier, search answers 200 with
\* an empty record list and sends no request to the summary endpoint or to the
\* full-text endpoint, whatever include_abstracts is.
C9_NothingFoundNothingFetched ==
    (IsSearchDone /\ FoundNothing) =>
        /\ resp.status = 200
        /\ resp.records = <<>>
        /\ GetsTo(trace.log, {"esummary", "efetch"}) = {}
        /\ Cardinality(GetsTo(trace.log, {"esearch"})) = 1

C9_Witness ==
    /\ IsSearchDone /\ FoundNothing /\ req.include_abstracts
    /\ trace.esearch.hasResult
    /\ resp.status = 200 /\ resp.records = <<>>

\* C10: for a non-empty id list, the records of the summary fetch carry
\* pairwise different pmids, all of them members of the id list, whatever the
\* literature service answers.
C10_SummaryWithinTheRequest ==
    (IsSearchDone /\ ~req.include_abstracts /\ resp.status = 200 /\ trace.pmids # <<>>) =>
        /\ \A i \in DOMAIN resp.records :
              \E k \in DOMAIN trace.pmids : trace.pmids[k] = resp.records[i].pmid
        /\ \A i, j \in DOMAIN resp.records :
              resp.records[i].pmid = resp.records[j].pmid => i = j

\* the record normaliser was called with a list of identifiers that is not empty
NormalizerCalled == IsSearchDone /\ trace.pmids # <<>>

\* C11: called with a non-empty list of identifiers, the normaliser returns, on
\* the summary path and on the full-text path, at most as many records as it
\* was given identifiers, whatever the literature service answers.
C11_NeverLongerThanTheRequest ==
    (NormalizerCalled /\ resp.status = 200) => Len(resp.records) <= Len(trace.pmids)

\* the endpoint whose answer was not a success, "" when every request that was
\* sent for the normaliser succeeded
FailedEndpoint ==
    IF trace.esummary.status # 200 THEN "esummary"
    ELSE IF req.include_abstracts /\ trace.efetch.status # 200 THEN "efetch"
    ELSE ""

\* C12: when the literature service answers a request of the normaliser with a
\* status that is not a success, the operation fails with an error and returns
\* no record, the request that failed was sent once, and nothing is sent or
\* done after it; this holds too when the summary request before it succeeded.
C12_FailureIsFinal ==
    (NormalizerCalled /\ FailedEndpoint # "") =>
        /\ resp.status = 500
        /\ resp.error # ""
        /\ resp.records = <<>>
        /\ Cardinality(GetsTo(trace.log, {FailedEndpoint})) = 1
        /\ trace.log[Len(trace.log)] = Get(FailedEndpoint, trace.pmids, trace.key)

C12_Witness ==
    /\ NormalizerCalled /\ req.include_abstracts
    /\ trace.esummary.status = 200 /\ trace.esummary.uids # <<>>
    /\ FailedEndpoint = "efetch"
    /\ resp.status = 500

\* both requests of the full-text path were answered with success
FullTextAnswered ==
    /\ NormalizerCalled /\ req.include_abstracts
    /\ trace.esummary.status = 200 /\ trace.efetch.status = 200

\* what a summary entry should give a record, written out for each entry the
\* service answers with: title, authors, venue, date, external id
ExpectedMeta(item) ==
    IF item = ItemFull
    THEN [title |-> "T", authors |-> <<"Ann", "Bob">>, journal |-> "Journal",
          pubdate |-> "2020 Jan", doi |-> "10.1/x"]
    ELSE IF item = ItemShort
    THEN [title |-> "T", authors |-> <<>>, journal |-> "J", pubdate |-> None, doi |-> None]
    ELSE [title |-> None, authors |-> <<>>, journal |-> None, pubdate |-> None, doi |-> None]

\* what is left of a record without its pmid and its abstract
MetaFields(r) ==
    [title |-> r.title, authors |-> r.authors, journal |-> r.journal,
     pubdate |-> r.pubdate, doi |-> r.doi]

\* the abstract a document should give: its fragments, one per line, a label
\* in front of the fragments that have one; absent when it has no fragment
ExpectedAbstract(d) == IF d.frags = <<>> THEN None ELSE "Background: b\nm"

\* the positions of the documents that have an identifier, and how many of
\* them stand at or before position i
WithPmid(docs) == { i \in DOMAIN docs : docs[i].pmid # None }
RankOf(docs, i) == Cardinality({ j \in WithPmid(docs) : j <= i })

\* C13: on the full-text path, when both requests succeed, the operation
\* succeeds and returns one record for each document that has an identifier,
\* in document order: with the document's identifier and abstract, and with
\* the summary entry's title, authors, venue, date and external id when the
\* summary answer lists the identifier, all of them absent or empty otherwise.
C13_EveryDocumentWithAnIdentifier ==
    FullTextAnswered =>
        LET docs == trace.efetch.docs
        IN  /\ resp.status = 200
            /\ Len(resp.records) = Cardinality(WithPmid(docs))
            /\ \A i \in WithPmid(docs) :
                  LET r == resp.records[RankOf(docs, i)]
                  IN  /\ r.pmid = docs[i].pmid
                      /\ r.abstract = ExpectedAbstract(docs[i])
                      /\ MetaFields(r) =
                            IF \E k \in DOMAIN trace.esummary.uids :
                                   trace.esummary.uids[k] = docs[i].pmid
                            THEN ExpectedMeta(trace.esummary.item)
                            ELSE ExpectedMeta(ItemNone)

C13_Witness ==
    /\ FullTextAnswered /\ resp.status = 200
    /\ trace.esummary.uids = <<"1">> /\ trace.esummary.item = ItemFull
    /\ Len(trace.efetch.docs) = 2
    /\ trace.efetch.docs[1].pmid = "1" /\ trace.efetch.docs[1].frags # <<>>
    /\ trace.efetch.docs[2].pmid = "2"
    /\ Len(resp.records) = 2
    /\ resp.records[1].title = "T" /\ resp.records[2].title = None

\* C14: every record the normaliser returns, on the summary path and on the
\* full-text path, has a pmid that is present and not empty, whatever the
\* literature service answers.
C14_IdentifierPresent ==
    (NormalizerCalled /\ resp.status = 200) =>
        \A i \in DOMAIN resp.records : ~Falsy(resp.records[i].pmid)

\* the same for the full-text path alone
C14_IdentifierPresentWithAbstracts ==
    (NormalizerCalled /\ resp.status = 200 /\ req.include_abstracts) =>
        \A i \in DOMAIN resp.records : ~Falsy(resp.records[i].pmid)

\* the records of a list, as a set
RecordSet(recs) == { recs[i] : i \in DOMAIN recs }

\* C15: on the full-text path, combining the summary result and the full-text
\* result a second time, with the summary lookup as the first combination left
\* it, gives the records of the first combination again, which are the records
\* returned: no record more, no field changed, the lookup as it was.
C15_MergeTwiceIsMergeOnce ==
    FullTextAnswered =>
        LET sum == Esummary(trace.pmids, trace.esummary, trace.key, <<>>).value
            docs == trace.efetch.docs
            first == MergeLoop(docs, [meta |-> MetaOf(sum), records |-> <<>>])
            second == MergeLoop(docs, [meta |-> first.meta, records |-> <<>>])
        IN  /\ SerializeRecords(first.records) = resp.records
            /\ first.meta = MetaOf(sum)
            /\ second.meta = first.meta
            /\ second.records = first.records
            /\ RecordSet(first.records) \cup RecordSet(second.records)
                  = RecordSet(resp.records)

C15_Witness ==
    /\ FullTextAnswered /\ resp.status = 200
    /\ trace.esummary.uids = <<"1", "2">> /\ trace.esummary.item = ItemFull
    /\ Len(trace.efetch.docs) = 2
    /\ trace.efetch.docs[1].pmid = "2" /\ trace.efetch.docs[2].pmid = "2"
    /\ Len(resp.records) = 2 /\ resp.records[2].title = "T"

\* the status the literature service answered a request to an endpoint with
AnswerStatus(endpoint) ==
    IF endpoint = "esearch" THEN trace.esearch.status
    ELSE IF endpoint = "esummary" THEN trace.esummary.status
    ELSE trace.efetch.status

\* what the client did towards the service just before entry i of the log:
\* the entry before it, or the last thing it did for an earlier operation
PreviousOutbound(i) == IF i = 1 THEN trace.before ELSE trace.log[i - 1].ev

\* every request that was answered with success is followed at once by a delay
\* of the fixed length for the operation's credential, and that length is
\* shorter with a credential than without
DelayAfterSuccess ==
    /\ \A i \in DOMAIN trace.log :
          (trace.log[i].ev = "GET" /\ AnswerStatus(trace.log[i].endpoint) = 200) =>
              /\ i < Len(trace.log)
              /\ trace.log[i + 1] = RateLimitSleep(trace.key)
    /\ \A i \in DOMAIN trace.log :
          trace.log[i].ev = "sleep" =>
              trace.log[i].ms = IF trace.key THEN SleepWithKeyMs ELSE SleepNoKeyMs
    /\ SleepWithKeyMs < SleepNoKeyMs

\* C16: the client takes its fixed delay after every request to the literature
\* service before it sends another request or returns to its caller: no
\* request follows a request without a delay between the two, a call that
\* returns has slept after its request, and the delay with a credential is
\* strictly shorter than the delay without.
C16_DelayAfterEveryCall ==
    IsSearchDone =>
        /\ DelayAfterSuccess
        /\ \A i \in DOMAIN trace.log :
              trace.log[i].ev = "GET" => PreviousOutbound(i) # "GET"

\* the same for the requests that are answered with success
C16_DelayAfterEverySuccess == IsSearchDone => DelayAfterSuccess
====
